---- MODULE Spec2Model ----
(***************************************************************************)
(* Model of bcpandas.main.to_sql: the load orchestration that serialises a *)
(* DataFrame to a scratch flat file, reconciles it with the destination    *)
(* table under the if_exists policy, writes a BCP format file, creates the *)
(* table when needed, runs the bulk-copy process and removes the scratch   *)
(* files.  Every collaborator call (file writes, catalog queries, DDL,     *)
(* bcp, os.remove) may succeed or raise.                                   *)
(***************************************************************************)
EXTENDS Integers, Sequences, FiniteSets, TLC

\* ---------------------------------------------------------------- bounds
MaxRows == 2
MaxCols == 2
NumProcs == 2

Procs == 1..NumProcs
\* the invocations that run under Spec: one caller, one call after another
SeqProcs == {1}

Names == {"a", "b"}
\* name pandas' reset_index gives the materialised (unnamed) index column
IndexName == "index"

\* ------------------------------------------------------ program constants
TABLE == "table"
IF_EXISTS_OPTIONS == {"fail", "replace", "append"}

SqlTypes == {"table", "view"}
IfExistsValues == IF_EXISTS_OPTIONS \cup {"bogus"}
\* Optional values are sequences: <<>> is None, <<v>> is the value v
None == <<>>
Some(v) == <<v>>
BatchSizes == {None} \cup {Some(n) : n \in -1..(MaxRows + 1)}
ErrorPaths == {None, Some("errdir")}

Range(s) == {s[i] : i \in 1..Len(s)}
SeqsUpTo(S, n) == UNION {[1..k -> S] : k \in 0..n}
\* coerced: the frame's booleans were replaced by 1/0; the caller's frames
\* hold their own values
DataFrames ==
    [nrows : 0..MaxRows, columns : SeqsUpTo(Names, MaxCols), coerced : {FALSE}]
EmptyFrame == [nrows |-> 0, columns |-> <<>>, coerced |-> FALSE]

\* ------------------------------------------------------------------ state
VARIABLES
    inv,      \* per invocation: arguments, locals, position, outcome
    catalog,  \* the database: does the destination exist, and its columns
    disk,     \* scratch files of the current invocations that exist on disk
    calls,    \* per invocation: the collaborator calls made so far, in order
    prev      \* per caller: what its previous invocation did to the destination

vars == <<inv, catalog, disk, calls, prev>>

\* replaced: the previous invocation ran if_exists='replace' and its table
\* creation returned; source: its columns; after: the destination's columns
\* when it ended
NoPrev == [replaced |-> FALSE, source |-> <<>>, after |-> <<>>]

NoColsDict == [none |-> TRUE, map |-> <<>>]

IdleInv ==
    [pc |-> "idle",
     \* caller_df: the caller's DataFrame; df: what the local name df holds
     \* df_is_copy: df is bound to a copy, not to the caller's object
     caller_df |-> EmptyFrame,
     df |-> EmptyFrame,
     df_is_copy |-> FALSE,
     \* csv_data: the frame serialised to the flat file
     csv_data |-> None,
     sql_type |-> TABLE, if_exists |-> "fail", index |-> FALSE,
     batch_size |-> None, debug |-> FALSE, error_path |-> None,
     csv_file_path |-> None, fmt_file_path |-> None,
     sql_item_exists |-> FALSE, cols_dict |-> NoColsDict,
     extra_cols |-> <<>>, fmt_file_txt |-> <<>>, bcp_args |-> None,
     pending |-> "none", result |-> "none"]

Init ==
    /\ inv = [p \in Procs |-> IdleInv]
    /\ catalog = [exists |-> FALSE, columns |-> <<>>]
    /\ disk = {}
    /\ calls = [p \in Procs |-> <<>>]
    /\ prev = [p \in Procs |-> NoPrev]

Ev(op, ok) == [op |-> op, ok |-> ok]

\* an exception raised outside the try block leaves to_sql at once
Raise(a, err) == [a EXCEPT !.pc = "done", !.result = err]
\* an exception raised inside the try block runs the finally clause first
RaiseInTry(a, err) == [a EXCEPT !.pc = "finally", !.pending = err]

\* ------------------------------------------------------------- validation
\* a check of the row count alone
IsEmptyRowsOnly(df) == df.nrows = 0

\* df.shape[0] == 0 or df.shape[1] == 0
IsEmpty(df) == df.nrows = 0 \/ Len(df.columns) = 0

\* df.columns.has_duplicates
has_duplicates(columns) ==
    \E i, j \in 1..Len(columns) : i # j /\ columns[i] = columns[j]

\* df.copy(deep=True).reset_index(): the index becomes the leading column
reset_index(df) == [df EXCEPT !.columns = <<IndexName>> \o @]

\* an index materialisation done in place, on the object df is bound to
MaterialiseIndexInPlace(a) ==
    [a EXCEPT !.df = reset_index(a.df),
              !.caller_df = IF a.df_is_copy THEN @ ELSE reset_index(@)]

\* lines 260-261: df is rebound to a deep copy with the index as a column
MaterialiseIndex(a) ==
    [a EXCEPT !.df = reset_index(a.df), !.df_is_copy = TRUE]

\* batch_size checks that compare with the row count off by one
BatchSizeErrorOffByOne(batch_size, nrows) ==
    IF batch_size = None THEN ""
    ELSE IF batch_size[1] = 0 THEN "BatchSizeZero"
    ELSE IF batch_size[1] > nrows + 1 THEN "BatchSizeTooLarge"
    ELSE ""

\* lines 266-272: the batch_size checks: "" when accepted, else the error
BatchSizeError(batch_size, nrows) ==
    IF batch_size = None THEN ""
    ELSE IF batch_size[1] = 0 THEN "BatchSizeZero"
    ELSE IF batch_size[1] > nrows THEN "BatchSizeTooLarge"
    ELSE ""

\* lines 248-272, in order; delim_found: get_delimiter/get_quotechar found
\* a character absent from the data
ValidationOutcome(a, delim_found) ==
    IF IsEmpty(a.df) THEN "returned"
    ELSE IF a.sql_type # TABLE THEN "AssertionError"
    ELSE IF a.if_exists \notin IF_EXISTS_OPTIONS THEN "AssertionError"
    ELSE IF has_duplicates(a.df.columns) THEN "DuplicateColumns"
    ELSE IF ~delim_found THEN "DelimiterError"
    ELSE IF BatchSizeError(a.batch_size, a.df.nrows) # ""
         THEN BatchSizeError(a.batch_size, a.df.nrows)
    ELSE "ok"

\* the caller invokes to_sql(df, ..., sql_type, index, if_exists, batch_size,
\* debug, error_path)
Call(p) ==
    /\ inv[p].pc = "idle"
    /\ \E df \in DataFrames, st \in SqlTypes, ie \in IfExistsValues,
          ix \in BOOLEAN, bs \in BatchSizes, dbg \in BOOLEAN, ep \in ErrorPaths :
         inv' = [inv EXCEPT ![p] =
                    [IdleInv EXCEPT !.pc = "validate", !.caller_df = df, !.df = df,
                                    !.sql_type = st,
                                    !.if_exists = ie, !.index = ix, !.batch_size = bs,
                                    !.debug = dbg, !.error_path = ep]]
    /\ UNCHANGED <<prev, catalog, disk, calls>>

Validate(p) ==
    /\ inv[p].pc = "validate"
    /\ \E delim_found \in BOOLEAN :
         LET a == inv[p]
             out == ValidationOutcome(a, delim_found)
         IN inv' = [inv EXCEPT ![p] =
                IF out = "ok"
                THEN [(IF a.index THEN MaterialiseIndex(a) ELSE a)
                         EXCEPT !.pc = "tmp_csv"]
                ELSE IF out = "returned"
                THEN [a EXCEPT !.pc = "done", !.result = "returned"]
                ELSE Raise(a, out)]
    /\ UNCHANGED <<prev, catalog, disk, calls>>

\* ------------------------------------------------------- scratch and flat file
\* utils.get_temp_file: a fresh path in the temp directory; creates no file
get_temp_file(p, kind) == <<p, kind>>

\* line 275
GetTempCsv(p) ==
    /\ inv[p].pc = "tmp_csv"
    /\ inv' = [inv EXCEPT ![p].csv_file_path = Some(get_temp_file(p, "csv")),
                          ![p].pc = "to_csv"]
    /\ calls' = [calls EXCEPT ![p] = Append(@, Ev("get_temp_file_csv", TRUE))]
    /\ UNCHANGED <<prev, catalog, disk>>

\* line 277: df.replace({True: 1, False: 0}) returns a new frame
replace_bools(df) == [df EXCEPT !.coerced = TRUE]

\* lines 277-288: df.replace(...).to_csv(csv_file_path); a failed write may
\* leave a partial file behind
ToCsv(p) ==
    /\ inv[p].pc = "to_csv"
    /\ \E ok \in BOOLEAN, partial \in BOOLEAN :
         /\ ok => partial
         /\ inv' = [inv EXCEPT ![p] =
                IF ok THEN [@ EXCEPT !.pc = "tmp_fmt",
                                     !.csv_data = Some(replace_bools(inv[p].df))]
                ELSE Raise(@, "SerializationError")]
         /\ disk' = IF partial THEN disk \cup {inv[p].csv_file_path[1]} ELSE disk
         /\ calls' = [calls EXCEPT ![p] = Append(@, Ev("to_csv", ok))]
    /\ UNCHANGED <<prev, catalog>>

\* line 291
GetTempFmt(p) ==
    /\ inv[p].pc = "tmp_fmt"
    /\ inv' = [inv EXCEPT ![p].fmt_file_path = Some(get_temp_file(p, "fmt")),
                          ![p].pc = "exists"]
    /\ calls' = [calls EXCEPT ![p] = Append(@, Ev("get_temp_file_fmt", TRUE))]
    /\ UNCHANGED <<prev, catalog, disk>>

\* ---------------------------------------------------------------- catalog
\* lines 158-168: rows of INFORMATION_SCHEMA.TABLES for the destination
_sql_item_exists(cat) == cat.exists

\* lines 293-297: the existence lookup; under append the column query follows
SqlItemExists(p) ==
    /\ inv[p].pc = "exists"
    /\ \E ok \in BOOLEAN :
         LET a == inv[p]
         IN /\ inv' = [inv EXCEPT ![p] =
                   IF ok
                   THEN [a EXCEPT !.sql_item_exists = _sql_item_exists(catalog),
                                  !.pc = IF a.if_exists = "append" THEN "columns"
                                         ELSE "format"]
                   ELSE Raise(a, "CatalogError")]
            /\ calls' = [calls EXCEPT ![p] = Append(@, Ev("_sql_item_exists", ok))]
    /\ UNCHANGED <<prev, catalog, disk>>

\* lines 299-311: dict of COLUMN_NAME -> ORDINAL_POSITION of the destination
ColumnsQuery(cat) ==
    [none |-> FALSE,
     map |-> [n \in Range(cat.columns) |->
                 CHOOSE i \in 1..Len(cat.columns) : cat.columns[i] = n]]

\* a drift check that stops at the first dataframe column
ExtraColsOfFirst(columns, cols_dict) ==
    SelectSeq(SubSeq(columns, 1, 1), LAMBDA x : x \notin DOMAIN cols_dict.map)

\* line 316: the dataframe columns that are no key of cols_dict, in df order
ExtraColsOf(columns, cols_dict) ==
    SelectSeq(columns, LAMBDA x : x \notin DOMAIN cols_dict.map)

\* a drift check that never aborts
DriftAbortNever(sql_item_exists, extra) == FALSE

\* lines 314-317: the append schema-drift abort condition
DriftAbort(sql_item_exists, extra) == sql_item_exists /\ extra # <<>>

\* lines 297-322
ReadColumns(p) ==
    /\ inv[p].pc = "columns"
    /\ \E ok \in BOOLEAN :
         LET a == inv[p]
             cd == ColumnsQuery(catalog)
             extra == ExtraColsOf(a.df.columns, cd)
         IN /\ inv' = [inv EXCEPT ![p] =
                   IF ~ok THEN Raise(a, "CatalogError")
                   ELSE IF DriftAbort(a.sql_item_exists, extra)
                   THEN Raise([a EXCEPT !.cols_dict = cd, !.extra_cols = extra],
                              "SchemaDrift")
                   ELSE [a EXCEPT !.cols_dict = cd, !.pc = "format"]]
            /\ calls' = [calls EXCEPT ![p] = Append(@, Ev("read_columns", ok))]
    /\ UNCHANGED <<prev, catalog, disk>>

\* ------------------------------------------------------------- format file
\* utils.build_format_file: one record per df column; the server column
\* order is the file order unless a non-empty name -> ordinal mapping is given
BuildRaises(df, db_cols_order) ==
    /\ ~db_cols_order.none
    /\ DOMAIN db_cols_order.map # {}
    /\ \E i \in 1..Len(df.columns) : df.columns[i] \notin DOMAIN db_cols_order.map

build_format_file(df, db_cols_order) ==
    [i \in 1..Len(df.columns) |->
        [file_ordinal |-> i,
         dest_ordinal |-> IF db_cols_order.none \/ DOMAIN db_cols_order.map = {}
                          THEN i
                          ELSE db_cols_order.map[df.columns[i]],
         name |-> df.columns[i]]]

\* a call of build_format_file that leaves db_cols_order at its default
DbColsOrderDefault(a) == NoColsDict

\* line 324: the db_cols_order argument handed to build_format_file
DbColsOrderArg(a) == a.cols_dict

\* lines 324-327: build the format file text and write it to fmt_file_path
WriteFormatFile(p) ==
    /\ inv[p].pc = "format"
    /\ LET a == inv[p]
           arg == DbColsOrderArg(a)
       IN IF BuildRaises(a.df, arg)
          THEN /\ inv' = [inv EXCEPT ![p] = Raise(a, "KeyError")]
               /\ calls' = [calls EXCEPT ![p] =
                                Append(@, Ev("build_format_file", FALSE))]
               /\ UNCHANGED <<prev, disk>>
          ELSE \E ok \in BOOLEAN, partial \in BOOLEAN :
               /\ ok => partial
               /\ inv' = [inv EXCEPT ![p] =
                      IF ok
                      THEN [a EXCEPT !.fmt_file_txt = build_format_file(a.df, arg),
                                     !.pc = "policy"]
                      ELSE Raise([a EXCEPT !.fmt_file_txt =
                                      build_format_file(a.df, arg)],
                                 "FormatFileError")]
               /\ disk' = IF partial THEN disk \cup {a.fmt_file_path[1]} ELSE disk
               /\ calls' = [calls EXCEPT ![p] =
                      @ \o <<Ev("build_format_file", TRUE), Ev("write_fmt", ok)>>]
    /\ UNCHANGED <<prev, catalog>>

\* ------------------------------------------------- create/skip and bulk copy
\* a decision that lets fail fall through to creation when the table exists
PolicyDecisionNoAbort(if_exists, sql_item_exists) ==
    IF if_exists \in {"fail", "replace"} THEN "create"
    ELSE IF if_exists = "append" /\ ~sql_item_exists THEN "create"
    ELSE "skip"

\* a replace that leaves an existing table in place
PolicyDecisionReplaceKeeps(if_exists, sql_item_exists) ==
    IF if_exists = "fail"
    THEN (IF sql_item_exists THEN "abort" ELSE "create")
    ELSE IF sql_item_exists THEN "skip"
    ELSE "create"

\* a decision that looks the table up again instead of using the flag
PolicyDecisionRecheck(if_exists, sql_item_exists) ==
    IF if_exists = "fail"
    THEN (IF catalog.exists THEN "abort" ELSE "create")
    ELSE IF if_exists = "replace" THEN "create"
    ELSE IF if_exists = "append" /\ ~catalog.exists THEN "create"
    ELSE "skip"

\* an append that never creates the missing table
PolicyDecisionAppendSkips(if_exists, sql_item_exists) ==
    IF if_exists = "fail"
    THEN (IF sql_item_exists THEN "abort" ELSE "create")
    ELSE IF if_exists = "replace" THEN "create"
    ELSE "skip"

\* lines 330-351: what the try block does with the policy and the existence
\* flag: "abort" (target already exists), "create" or "skip"
PolicyDecision(if_exists, sql_item_exists) ==
    IF if_exists = "fail"
    THEN (IF sql_item_exists THEN "abort" ELSE "create")
    ELSE IF if_exists = "replace" THEN "create"
    ELSE IF if_exists = "append" /\ ~sql_item_exists THEN "create"
    ELSE "skip"

\* a table created with its columns in the opposite order
CreatedTableReversed(df) ==
    [exists |-> TRUE,
     columns |-> [i \in 1..Len(df.columns) |-> df.columns[Len(df.columns) + 1 - i]]]

\* the table as pandas' SQLTable creates it: the df columns, in df order
CreatedTable(df) == [exists |-> TRUE, columns |-> df.columns]

\* lines 171-187: SQLTable(...).create() re-checks the table itself: an
\* existing table is an error under fail, dropped and re-created under
\* replace and left alone under append
_create_table(cat, df, if_exists) ==
    IF ~cat.exists THEN [ok |-> TRUE, cat |-> CreatedTable(df)]
    ELSE IF if_exists = "replace" THEN [ok |-> TRUE, cat |-> CreatedTable(df)]
    ELSE IF if_exists = "append" THEN [ok |-> TRUE, cat |-> cat]
    ELSE [ok |-> FALSE, cat |-> cat]

Dropped == [exists |-> FALSE, columns |-> <<>>]

\* a creation whose failure is swallowed
AfterCreateSwallowed(a, ok) == [a EXCEPT !.pc = "bcp"]

\* lines 337-353: bcp follows a creation that returned; a raise leaves the try
AfterCreate(a, ok) ==
    IF ok THEN [a EXCEPT !.pc = "bcp"] ELSE RaiseInTry(a, "CreateTableError")

\* lines 329-351; db: the database accepts the DDL ("ok"), rejects it
\* ("error"), or under replace drops the table and then fails ("dropped")
ApplyPolicy(p) ==
    /\ inv[p].pc = "policy"
    /\ LET a == inv[p]
           dec == PolicyDecision(a.if_exists, a.sql_item_exists)
       IN IF dec = "abort"
          THEN /\ inv' = [inv EXCEPT ![p] = RaiseInTry(a, "AlreadyExists")]
               /\ UNCHANGED <<prev, catalog, calls>>
          ELSE IF dec = "skip"
          THEN /\ inv' = [inv EXCEPT ![p].pc = "bcp"]
               /\ UNCHANGED <<prev, catalog, calls>>
          ELSE \E db \in {"ok", "error", "dropped"} :
               LET r == _create_table(catalog, a.df, a.if_exists)
                   ok == db = "ok" /\ r.ok
               IN /\ db = "dropped" => (catalog.exists /\ a.if_exists = "replace")
                  /\ catalog' = IF ok THEN r.cat
                                ELSE IF db = "dropped" THEN Dropped
                                ELSE catalog
                  /\ inv' = [inv EXCEPT ![p] = AfterCreate(a, ok)]
                  /\ calls' = [calls EXCEPT ![p] = Append(@, Ev("_create_table", ok))]
    /\ UNCHANGED <<prev, disk>>

\* line 364: f'{error_path}/{table_name}_bcp_error.txt' is a string whatever
\* error_path is; formatting None gives the text "None"
ErrorFilePath(error_path) ==
    Some([dir |-> IF error_path = None THEN "None" ELSE error_path[1],
          file |-> "bcp_error.txt"])

\* lines 354-365: the bulk-copy process runs and exits zero or non-zero
Bcp(p) ==
    /\ inv[p].pc = "bcp"
    /\ \E ok \in BOOLEAN :
         LET a == inv[p]
             args == [flat_file |-> a.csv_file_path,
                      format_file_path |-> a.fmt_file_path,
                      batch_size |-> a.batch_size,
                      error_file_path |-> ErrorFilePath(a.error_path)]
         IN /\ inv' = [inv EXCEPT ![p] =
                   IF ok THEN [a EXCEPT !.bcp_args = Some(args), !.pc = "finally"]
                   ELSE RaiseInTry([a EXCEPT !.bcp_args = Some(args)], "BcpError")]
            /\ calls' = [calls EXCEPT ![p] = Append(@, Ev("bcp", ok))]
    /\ UNCHANGED <<prev, catalog, disk>>

\* ---------------------------------------------------------------- cleanup
\* a finally clause that deletes whatever debug is
ShouldDeleteAlways(debug) == TRUE

\* line 367: the finally clause deletes the scratch files unless debug
ShouldDelete(debug) == ~debug

\* how to_sql ends once the finally clause completes: the pending exception
\* of the try block is re-raised, else to_sql returns
Outcome(a) == IF a.pending = "none" THEN "returned" ELSE a.pending

\* lines 366-375: entering the finally clause
Finally(p) ==
    /\ inv[p].pc = "finally"
    /\ inv' = [inv EXCEPT ![p] =
           IF ShouldDelete(@.debug) THEN [@ EXCEPT !.pc = "rm_csv"]
           ELSE [@ EXCEPT !.pc = "done", !.result = Outcome(inv[p])]]
    /\ calls' = [calls EXCEPT ![p] = Append(@, Ev("cleanup", TRUE))]
    /\ UNCHANGED <<prev, catalog, disk>>

\* an exception raised inside the finally clause replaces the pending one
\* and skips the rest of the clause
RaiseInFinally(a, err) == [a EXCEPT !.pc = "done", !.result = err]

\* line 369: os.remove(csv_file_path)
RemoveCsv(p) ==
    /\ inv[p].pc = "rm_csv"
    /\ \E ok \in BOOLEAN :
         /\ inv' = [inv EXCEPT ![p] =
                IF ok THEN [@ EXCEPT !.pc = "rm_fmt"]
                ELSE RaiseInFinally(@, "RemoveError")]
         /\ disk' = IF ok THEN disk \ {inv[p].csv_file_path[1]} ELSE disk
         /\ calls' = [calls EXCEPT ![p] = Append(@, Ev("remove_csv", ok))]
    /\ UNCHANGED <<prev, catalog>>

\* line 370: os.remove(fmt_file_path)
RemoveFmt(p) ==
    /\ inv[p].pc = "rm_fmt"
    /\ \E ok \in BOOLEAN :
         /\ inv' = [inv EXCEPT ![p] =
                IF ok THEN [@ EXCEPT !.pc = "done", !.result = Outcome(inv[p])]
                ELSE RaiseInFinally(@, "RemoveError")]
         /\ disk' = IF ok THEN disk \ {inv[p].fmt_file_path[1]} ELSE disk
         /\ calls' = [calls EXCEPT ![p] = Append(@, Ev("remove_fmt", ok))]
    /\ UNCHANGED <<prev, catalog>>

\* to_sql has returned or raised and the caller goes on; scratch files the
\* finished invocation left behind are no longer tracked
Return(p) ==
    /\ inv[p].pc = "done"
    /\ inv' = [inv EXCEPT ![p] = IdleInv]
    /\ calls' = [calls EXCEPT ![p] = <<>>]
    /\ disk' = {f \in disk : f[1] # p}
    /\ prev' = [prev EXCEPT ![p] =
           IF inv[p].if_exists = "replace"
                /\ \E i \in 1..Len(calls[p]) : calls[p][i] = Ev("_create_table", TRUE)
           THEN [replaced |-> TRUE, source |-> inv[p].df.columns,
                 after |-> catalog.columns]
           ELSE NoPrev]
    /\ UNCHANGED catalog

\* ---------------------------------------------------------- specification
Step(p) ==
    \/ Call(p)
    \/ Validate(p)
    \/ GetTempCsv(p)
    \/ ToCsv(p)
    \/ GetTempFmt(p)
    \/ SqlItemExists(p)
    \/ ReadColumns(p)
    \/ WriteFormatFile(p)
    \/ ApplyPolicy(p)
    \/ Bcp(p)
    \/ Finally(p)
    \/ RemoveCsv(p)
    \/ RemoveFmt(p)
    \/ Return(p)

Next == \E p \in SeqProcs : Step(p)

Spec == Init /\ [][Next]_vars

\* two callers invoke to_sql on the same destination at the same time, each
\* with a one-row, one-column source and any of the three policies
ConcProcs == {1, 2}
ConcFrame == [nrows |-> 1, columns |-> <<"a">>, coerced |-> FALSE]

CallConc(p) ==
    /\ inv[p].pc = "idle"
    /\ \E ie \in IF_EXISTS_OPTIONS :
         inv' = [inv EXCEPT ![p] =
                    [IdleInv EXCEPT !.pc = "validate", !.caller_df = ConcFrame,
                                    !.df = ConcFrame, !.if_exists = ie]]
    /\ UNCHANGED <<prev, catalog, disk, calls>>

StepConc(p) ==
    \/ CallConc(p)
    \/ Validate(p)
    \/ GetTempCsv(p)
    \/ ToCsv(p)
    \/ GetTempFmt(p)
    \/ SqlItemExists(p)
    \/ ReadColumns(p)
    \/ WriteFormatFile(p)
    \/ ApplyPolicy(p)
    \/ Bcp(p)
    \/ Finally(p)
    \/ RemoveCsv(p)
    \/ RemoveFmt(p)
    \/ Return(p)

NextConc == \E p \in ConcProcs : StepConc(p)

SpecConc == Init /\ [][NextConc]_vars

\* ------------------------------------------------------------ observations
Ops(p) == {calls[p][i].op : i \in 1..Len(calls[p])}
Called(p, op) == op \in Ops(p)
CalledOk(p, op) == \E i \in 1..Len(calls[p]) : calls[p][i] = Ev(op, TRUE)
CountOf(p, op) == Cardinality({i \in 1..Len(calls[p]) : calls[p][i].op = op})
OnDisk(p) == {f \in disk : f[1] = p}
Done(p) == inv[p].pc = "done"
PassedValidation(p) == inv[p].csv_file_path # None
SrcEmpty(p) == inv[p].caller_df.nrows = 0 \/ Len(inv[p].caller_df.columns) = 0
SrcDuplicates(p) ==
    Cardinality(Range(inv[p].caller_df.columns)) < Len(inv[p].caller_df.columns)
ValidationErrors ==
    {"AssertionError", "DuplicateColumns", "DelimiterError", "BatchSizeZero",
     "BatchSizeTooLarge"}

\* C1: every invocation with debug=False that passed validation has, when it
\* returns or raises, none of its scratch files left on disk, whichever step
\* failed.
C1_CleanupOnEveryExit ==
    \A p \in Procs :
        (Done(p) /\ ~inv[p].debug /\ PassedValidation(p)) => OnDisk(p) = {}

\* C2: an invocation whose source has zero rows or zero columns returns
\* without raising and has made no collaborator call, acquired no scratch
\* path, written no file and not touched bcp, whatever its other arguments.
C2_EmptySourceNoOp ==
    \A p \in Procs :
        (SrcEmpty(p) /\ inv[p].pc \notin {"idle", "validate"}) =>
            /\ Done(p)
            /\ inv[p].result = "returned"
            /\ calls[p] = <<>>
            /\ OnDisk(p) = {}
            /\ inv[p].csv_file_path = None
            /\ inv[p].fmt_file_path = None
            /\ inv[p].bcp_args = None

\* reached: an empty source returned although every other argument is invalid
C2_Witness ==
    \E p \in Procs :
        /\ Done(p) /\ inv[p].result = "returned"
        /\ Len(inv[p].caller_df.columns) = 0 /\ inv[p].caller_df.nrows > 0
        /\ inv[p].sql_type = "view" /\ inv[p].if_exists = "bogus"
        /\ inv[p].batch_size = Some(0)

\* the argument errors C3 lists, for a non-empty source
C3_Invalid(p) ==
    /\ ~SrcEmpty(p)
    /\ \/ SrcDuplicates(p)
       \/ inv[p].sql_type # "table"
       \/ inv[p].if_exists \notin {"fail", "replace", "append"}
       \/ inv[p].batch_size = Some(0)
       \/ (inv[p].batch_size # None /\ inv[p].batch_size[1] > inv[p].caller_df.nrows)

\* C3: a non-empty source with duplicate column names, a sql_type other than
\* 'table', an unknown if_exists, batch_size 0 or batch_size above the row
\* count makes to_sql raise a validation error before any scratch path is
\* acquired, any file written, any catalog query, table creation or bcp.
C3_ValidationBeforeIO ==
    \A p \in Procs :
        (C3_Invalid(p) /\ inv[p].pc \notin {"idle", "validate"}) =>
            /\ Done(p)
            /\ inv[p].result \in ValidationErrors
            /\ calls[p] = <<>>
            /\ OnDisk(p) = {}
            /\ inv[p].csv_file_path = None
            /\ inv[p].fmt_file_path = None

\* reached: the only invalid argument is a batch_size above the row count
C3_Witness ==
    \E p \in Procs :
        /\ Done(p) /\ inv[p].result = "BatchSizeTooLarge"
        /\ inv[p].batch_size = Some(inv[p].caller_df.nrows + 1)
        /\ ~SrcDuplicates(p) /\ inv[p].sql_type = "table"
        /\ inv[p].if_exists = "replace"

\* position of the first call of op in the invocation's call sequence, 0 if none
IndexOf(p, op) ==
    IF Called(p, op)
    THEN CHOOSE i \in 1..Len(calls[p]) :
            /\ calls[p][i].op = op
            /\ \A j \in 1..(i - 1) : calls[p][j].op # op
    ELSE 0
\* the try block was entered: the format file was built and written
ReachedPolicy(p) == CalledOk(p, "write_fmt")
Failed(p) == inv[p].result \notin {"none", "returned"}

\* C4: under if_exists='fail', when the catalog lookup reported that the
\* destination exists the invocation ends in an error, the error raised at
\* the policy step is 'target already exists', and neither table creation
\* nor bcp is ever invoked; when the lookup reported that it does not exist
\* the table is created at the policy step and bcp is invoked right after a
\* successful creation (and not at all after a failed one).
C4_FailPolicy ==
    \A p \in Procs :
        (Done(p) /\ inv[p].if_exists = "fail" /\ CalledOk(p, "_sql_item_exists")) =>
            /\ inv[p].sql_item_exists =>
                  /\ Failed(p)
                  /\ ~Called(p, "_create_table")
                  /\ ~Called(p, "bcp")
                  /\ ReachedPolicy(p) => inv[p].pending = "AlreadyExists"
            /\ (~inv[p].sql_item_exists /\ ReachedPolicy(p)) =>
                  /\ CountOf(p, "_create_table") = 1
                  /\ inv[p].pending # "AlreadyExists"
                  /\ CalledOk(p, "_create_table") =>
                        /\ CountOf(p, "bcp") = 1
                        /\ IndexOf(p, "bcp") = IndexOf(p, "_create_table") + 1
                  /\ ~CalledOk(p, "_create_table") => ~Called(p, "bcp")

\* reached: the destination exists, the policy step raised 'already exists'
\* and that error reached the caller
C4_Witness ==
    \E p \in Procs :
        /\ Done(p) /\ inv[p].if_exists = "fail" /\ inv[p].sql_item_exists
        /\ ReachedPolicy(p) /\ inv[p].result = "AlreadyExists"

\* columns of the source (after index materialisation) that the destination
\* table of the catalog does not have
SourceMinusDest(p) == Range(inv[p].df.columns) \ Range(catalog.columns)

\* C5: under if_exists='append' against an existing destination whose
\* columns were read, the invocation aborts with the schema-drift error iff
\* source columns minus destination columns is non-empty; the error names
\* exactly those columns, and neither table creation nor bcp is invoked;
\* otherwise the load goes on to bcp without creating the table.  No other
\* invocation raises the schema-drift error.
C5_AppendDrift ==
    \A p \in Procs :
        /\ (Done(p) /\ inv[p].if_exists = "append" /\ inv[p].sql_item_exists
              /\ CalledOk(p, "read_columns")) =>
              /\ inv[p].result = "SchemaDrift" <=> SourceMinusDest(p) # {}
              /\ inv[p].result = "SchemaDrift" =>
                    /\ Range(inv[p].extra_cols) = SourceMinusDest(p)
                    /\ Len(inv[p].extra_cols) = Cardinality(SourceMinusDest(p))
                    /\ ~Called(p, "_create_table")
                    /\ ~Called(p, "bcp")
                    /\ ~Called(p, "build_format_file")
              /\ SourceMinusDest(p) = {} =>
                    /\ ~Called(p, "_create_table")
                    /\ ReachedPolicy(p) => Called(p, "bcp")
        /\ inv[p].result = "SchemaDrift" =>
              /\ inv[p].if_exists = "append"
              /\ inv[p].sql_item_exists
              /\ catalog.exists

\* reached: the destination lacks one of two source columns and the error
\* names that one
C5_Witness ==
    \E p \in Procs :
        /\ Done(p) /\ inv[p].result = "SchemaDrift"
        /\ Len(inv[p].df.columns) = 2
        /\ Len(inv[p].extra_cols) = 1

\* reached: the destination has a column the source lacks and the load ran
C5_WitnessSuperset ==
    \E p \in Procs :
        /\ Done(p) /\ inv[p].if_exists = "append" /\ inv[p].sql_item_exists
        /\ Range(catalog.columns) \ Range(inv[p].df.columns) # {}
        /\ CalledOk(p, "bcp") /\ inv[p].result = "returned"

\* the error each collaborator's failure raises
ErrorOf(op) ==
    CASE op = "to_csv" -> "SerializationError"
      [] op \in {"_sql_item_exists", "read_columns"} -> "CatalogError"
      [] op = "build_format_file" -> "KeyError"
      [] op = "write_fmt" -> "FormatFileError"
      [] op = "_create_table" -> "CreateTableError"
      [] op = "bcp" -> "BcpError"
      [] OTHER -> "RemoveError"
PipelineOps ==
    {"get_temp_file_csv", "to_csv", "get_temp_file_fmt", "_sql_item_exists",
     "read_columns", "build_format_file", "write_fmt", "_create_table", "bcp"}
FallibleSteps ==
    {"to_csv", "_sql_item_exists", "read_columns", "build_format_file",
     "write_fmt", "_create_table", "bcp"}

\* C6: bcp and table creation are each invoked at most once; a failure of
\* the serialization, a catalog query, the table creation or bcp is the
\* error the caller gets, no pipeline step runs after it, and the cleanup
\* step still runs.
C6_NoRetryNoSwallow ==
    \A p \in Procs :
        /\ CountOf(p, "bcp") <= 1
        /\ CountOf(p, "_create_table") <= 1
        /\ Done(p) =>
              \A i \in 1..Len(calls[p]) :
                  (calls[p][i].op \in {"to_csv", "_sql_item_exists", "read_columns",
                                       "_create_table", "bcp"}
                     /\ ~calls[p][i].ok) =>
                      /\ inv[p].result = ErrorOf(calls[p][i].op)
                      /\ \A j \in (i + 1)..Len(calls[p]) :
                             calls[p][j].op \notin PipelineOps
                      /\ Called(p, "cleanup")

\* C7: when table creation or bcp failed, the caller gets that error even
\* if deleting a scratch file fails too, and a failed deletion of the flat
\* file is still followed by the attempt to delete the format file.
C7_CleanupDoesNotMask ==
    \A p \in Procs :
        Done(p) =>
            /\ inv[p].pending \in {"CreateTableError", "BcpError"} =>
                  inv[p].result = inv[p].pending
            /\ (Called(p, "remove_csv") /\ ~CalledOk(p, "remove_csv")) =>
                  Called(p, "remove_fmt")

\* C8: both scratch paths are acquired before any step that can fail, and
\* an invocation that acquired a scratch path runs the cleanup step exactly
\* once before it ends.
C8_ScopedAcquisition ==
    \A p \in Procs :
        /\ \A i \in 1..Len(calls[p]) :
              calls[p][i].op \in FallibleSteps =>
                  /\ 0 < IndexOf(p, "get_temp_file_csv")
                  /\ IndexOf(p, "get_temp_file_csv") < i
                  /\ 0 < IndexOf(p, "get_temp_file_fmt")
                  /\ IndexOf(p, "get_temp_file_fmt") < i
        /\ CountOf(p, "cleanup") <= 1
        /\ (Done(p) /\ PassedValidation(p)) => CountOf(p, "cleanup") = 1

\* C9: with debug=True no scratch file is ever removed: no deletion is
\* attempted and every file the invocation wrote is still on disk when it
\* ends, however it ends; with debug=False an invocation that returns
\* normally has deleted both scratch files.
C9_DebugPreserves ==
    \A p \in Procs :
        /\ inv[p].debug =>
              /\ ~Called(p, "remove_csv") /\ ~Called(p, "remove_fmt")
              /\ CalledOk(p, "to_csv") => inv[p].csv_file_path[1] \in disk
              /\ CalledOk(p, "write_fmt") => inv[p].fmt_file_path[1] \in disk
        /\ (Done(p) /\ ~inv[p].debug /\ inv[p].result = "returned"
              /\ PassedValidation(p)) =>
              /\ CalledOk(p, "bcp")
              /\ CalledOk(p, "remove_csv") /\ CalledOk(p, "remove_fmt")
              /\ OnDisk(p) = {}

\* reached: a debug invocation whose bcp failed ends with both files on disk
C9_Witness ==
    \E p \in Procs :
        /\ Done(p) /\ inv[p].debug /\ inv[p].result = "BcpError"
        /\ Called(p, "cleanup")
        /\ OnDisk(p) = {inv[p].csv_file_path[1], inv[p].fmt_file_path[1]}

\* reached: a non-debug invocation returned normally with both files deleted
C9_WitnessDeleted ==
    \E p \in Procs :
        /\ Done(p) /\ ~inv[p].debug /\ inv[p].result = "returned"
        /\ CalledOk(p, "remove_fmt") /\ OnDisk(p) = {}

\* ordinal of column n in the destination table of the catalog
CatalogOrdinal(n) == CHOOSE i \in 1..Len(catalog.columns) : catalog.columns[i] = n

\* C10: under if_exists='append' against an existing destination with every
\* source column, the mapping handed to the format-file builder is the
\* catalog's name -> ordinal mapping, the format file has one record per
\* source column, in file order, carrying the catalog ordinal of the
\* same-named destination column, and no record for any other column.
C10_AppendOrdinals ==
    \A p \in Procs :
        (inv[p].if_exists = "append" /\ inv[p].sql_item_exists
           /\ CalledOk(p, "build_format_file")) =>
            /\ ~DbColsOrderArg(inv[p]).none
            /\ DOMAIN DbColsOrderArg(inv[p]).map = Range(catalog.columns)
            /\ \A n \in Range(catalog.columns) :
                   DbColsOrderArg(inv[p]).map[n] = CatalogOrdinal(n)
            /\ Len(inv[p].fmt_file_txt) = Len(inv[p].df.columns)
            /\ \A i \in 1..Len(inv[p].fmt_file_txt) :
                   /\ inv[p].fmt_file_txt[i].file_ordinal = i
                   /\ inv[p].fmt_file_txt[i].name = inv[p].df.columns[i]
                   /\ inv[p].fmt_file_txt[i].dest_ordinal =
                          CatalogOrdinal(inv[p].df.columns[i])

\* reached: a record whose destination ordinal differs from its file
\* position, with a destination column that gets no record
C10_Witness ==
    \E p \in Procs :
        /\ inv[p].if_exists = "append" /\ inv[p].sql_item_exists
        /\ CalledOk(p, "write_fmt")
        /\ \E i \in 1..Len(inv[p].fmt_file_txt) :
               inv[p].fmt_file_txt[i].dest_ordinal # i
        /\ \E n \in Range(catalog.columns) :
               \A i \in 1..Len(inv[p].fmt_file_txt) : inv[p].fmt_file_txt[i].name # n

\* the destination is created by this invocation: fail, replace, or append
\* with a lookup that found no table
FreshTable(p) ==
    /\ CalledOk(p, "_sql_item_exists")
    /\ \/ inv[p].if_exists \in {"fail", "replace"}
       \/ inv[p].if_exists = "append" /\ ~inv[p].sql_item_exists
\* the source columns in file order: the index first when index=True
FileColumns(p) ==
    IF inv[p].index THEN <<IndexName>> \o inv[p].caller_df.columns
    ELSE inv[p].caller_df.columns

\* C11: under fail, under replace, and under append when the lookup found no
\* destination, the format file has one record per source column in source
\* order (index first when index=True) whose destination ordinal equals its
\* file ordinal, with no name -> ordinal mapping in effect, and a table this
\* invocation creates has its columns in that same order.
C11_OneToOneOrdinals ==
    \A p \in Procs :
        (FreshTable(p) /\ CalledOk(p, "build_format_file")) =>
            /\ DbColsOrderArg(inv[p]).none \/ DOMAIN DbColsOrderArg(inv[p]).map = {}
            /\ Len(inv[p].fmt_file_txt) = Len(FileColumns(p))
            /\ \A i \in 1..Len(inv[p].fmt_file_txt) :
                   /\ inv[p].fmt_file_txt[i].file_ordinal = i
                   /\ inv[p].fmt_file_txt[i].dest_ordinal = i
                   /\ inv[p].fmt_file_txt[i].name = FileColumns(p)[i]
            /\ CalledOk(p, "_create_table") =>
                   /\ catalog.exists
                   /\ catalog.columns = FileColumns(p)

\* reached: append found no table, the index and two columns were written
\* one to one and the table was created in that order
C11_Witness ==
    \E p \in Procs :
        /\ inv[p].if_exists = "append" /\ ~inv[p].sql_item_exists
        /\ inv[p].index /\ Len(inv[p].caller_df.columns) = 2
        /\ CalledOk(p, "_create_table")
        /\ Len(inv[p].fmt_file_txt) = 3
        /\ catalog.columns = <<IndexName>> \o inv[p].caller_df.columns

\* C12: bcp is handed an error-output path only when the caller supplied
\* error_path; with error_path=None no error-output path is passed.
C12_ErrorPathOptional ==
    \A p \in Procs :
        inv[p].bcp_args # None =>
            (inv[p].bcp_args[1].error_file_path # None <=> inv[p].error_path # None)

\* the invocation has left the create/skip step of the try block
PastPolicy(p) ==
    ReachedPolicy(p) /\ inv[p].pc \in {"bcp", "finally", "rm_csv", "rm_fmt", "done"}

\* C13: every replace invocation that reaches the create step invokes table
\* creation once, whether the lookup found the table or not; and when the
\* caller's previous invocation was a replace of the same source whose
\* creation returned, the destination's columns after this invocation's
\* creation are the columns it had after the previous one.
C13_ReplaceIdempotent ==
    \A p \in Procs :
        (inv[p].if_exists = "replace" /\ PastPolicy(p)) =>
            /\ CountOf(p, "_create_table") = 1
            /\ (prev[p].replaced /\ prev[p].source = inv[p].df.columns
                  /\ CalledOk(p, "_create_table")) =>
                   /\ inv[p].sql_item_exists
                   /\ catalog.exists
                   /\ Range(catalog.columns) = Range(prev[p].after)
                   /\ Range(catalog.columns) = Range(inv[p].df.columns)

\* reached: the second of two replace runs of the same two-column source
\* found the table and created it again
C13_Witness ==
    \E p \in Procs :
        /\ inv[p].if_exists = "replace" /\ PastPolicy(p)
        /\ prev[p].replaced /\ prev[p].source = inv[p].df.columns
        /\ Len(inv[p].df.columns) = 2
        /\ inv[p].sql_item_exists
        /\ CalledOk(p, "_create_table")

\* C14: the create decision uses the flag of the lookup, not the table's
\* state at the create step: an invocation whose lookup found no destination
\* and that has left the create step has invoked table creation, whatever a
\* concurrent invocation did to the destination in between.
C14_CreateFollowsLookup ==
    \A p \in Procs :
        (CalledOk(p, "_sql_item_exists") /\ ~inv[p].sql_item_exists /\ PastPolicy(p)) =>
            Called(p, "_create_table")

\* reached: two concurrent invocations both found no destination and both
\* invoked table creation, the second one on a table that already existed
C14_Witness ==
    \E p, q \in Procs :
        /\ p # q
        /\ CalledOk(p, "_sql_item_exists") /\ ~inv[p].sql_item_exists
        /\ CalledOk(q, "_sql_item_exists") /\ ~inv[q].sql_item_exists
        /\ CalledOk(p, "_create_table")
        /\ Called(q, "_create_table")
        /\ inv[q].pending = "CreateTableError"
        /\ catalog.exists

\* reached: the same race under replace and under append
C14_WitnessReplaceAppend ==
    \E p, q \in Procs :
        /\ p # q
        /\ inv[p].if_exists = "replace" /\ inv[q].if_exists = "append"
        /\ CalledOk(p, "_sql_item_exists") /\ ~inv[p].sql_item_exists
        /\ CalledOk(q, "_sql_item_exists") /\ ~inv[q].sql_item_exists
        /\ CalledOk(p, "_create_table") /\ CalledOk(q, "_create_table")

\* C15: from the call to the return or raise of to_sql, no step changes the
\* caller's DataFrame: its columns, row count and values stay what they were;
\* the index is materialised on a copy and the booleans are replaced in the
\* frame that is serialised, not in the caller's.
C15_SourceNeverMutated ==
    [][\A p \in Procs :
          (inv[p].pc # "idle" /\ inv'[p].pc # "idle") =>
              /\ inv'[p].caller_df = inv[p].caller_df
              /\ ~inv'[p].caller_df.coerced
              /\ (inv'[p].df # inv'[p].caller_df) => inv'[p].df_is_copy]_vars

\* reached: the index was materialised and the booleans replaced for the
\* flat file while the caller's frame kept its columns and values
C15_Witness ==
    \E p \in Procs :
        /\ Done(p) /\ inv[p].index /\ inv[p].result = "returned"
        /\ inv[p].csv_data # None
        /\ inv[p].csv_data[1].coerced
        /\ inv[p].csv_data[1].columns = <<IndexName>> \o inv[p].caller_df.columns
        /\ ~inv[p].caller_df.coerced
        /\ inv[p].df_is_copy

\* the invocation ended, or is ending, in an abort decided by the policy
FailAbort(p) == inv[p].pending = "AlreadyExists"
DriftAborted(p) == inv[p].result = "SchemaDrift"

\* C16 as stated: every policy abort (fail with an existing destination,
\* append with source columns the destination lacks) is raised after the
\* catalog lookup and before the format file is built and written.
C16_AbortsAtReconcile ==
    \A p \in Procs :
        (FailAbort(p) \/ DriftAborted(p)) =>
            /\ CalledOk(p, "_sql_item_exists")
            /\ ~Called(p, "build_format_file")
            /\ ~Called(p, "write_fmt")

\* C16 amended: the append drift abort is raised after the catalog lookup
\* and column query and before the format file is built; the fail abort is
\* raised after the lookup and after the format file was built and written;
\* both precede any table creation and any bcp call.  An append whose source
\* has columns the existing destination lacks never gets to the format file,
\* and a fail that found the destination never gets past the create step
\* without the abort.
C16_AbortPoints ==
    \A p \in Procs :
        /\ DriftAborted(p) =>
              /\ CalledOk(p, "_sql_item_exists") /\ CalledOk(p, "read_columns")
              /\ ~Called(p, "build_format_file") /\ ~Called(p, "write_fmt")
              /\ ~Called(p, "_create_table") /\ ~Called(p, "bcp")
        /\ FailAbort(p) =>
              /\ CalledOk(p, "_sql_item_exists")
              /\ IndexOf(p, "_sql_item_exists") < IndexOf(p, "build_format_file")
              /\ CalledOk(p, "write_fmt")
              /\ ~Called(p, "_create_table") /\ ~Called(p, "bcp")
        /\ (inv[p].if_exists = "append" /\ inv[p].sql_item_exists
              /\ CalledOk(p, "read_columns") /\ SourceMinusDest(p) # {}) =>
              /\ DriftAborted(p)
              /\ ~Called(p, "build_format_file")
        /\ (inv[p].if_exists = "fail" /\ inv[p].sql_item_exists /\ PastPolicy(p)) =>
              FailAbort(p)

\* reached: a fail abort raised with the format file already on disk
C16_Witness ==
    \E p \in Procs :
        /\ FailAbort(p) /\ inv[p].pc = "finally"
        /\ CalledOk(p, "write_fmt")
        /\ inv[p].fmt_file_path[1] \in disk

\* the three outcomes of the existence policy, read off the call log
Decided(p) == PastPolicy(p) \/ DriftAborted(p)
Creates(p) == Called(p, "_create_table")
Skipped(p) ==
    /\ PastPolicy(p) /\ ~Called(p, "_create_table")
    /\ (inv[p].pc = "bcp" \/ Called(p, "bcp"))
Aborted(p) ==
    \/ DriftAborted(p)
    \/ /\ PastPolicy(p) /\ inv[p].pc # "bcp"
       /\ ~Called(p, "_create_table") /\ ~Called(p, "bcp")
ExtraSourceCols(p) ==
    IF inv[p].cols_dict.none THEN <<>>
    ELSE ExtraColsOf(inv[p].df.columns, inv[p].cols_dict)
AfterLookupOps == {"read_columns", "build_format_file", "write_fmt",
                   "_create_table", "bcp"}

\* C17: the catalog is asked for the destination's existence at most once,
\* and exactly once in every invocation that got to a later step; once the
\* policy is decided, creation is invoked iff replace, or fail/append with the
\* destination absent; it is skipped iff append with the destination present
\* and no extra source column; the invocation aborts without creation iff
\* fail with the destination present, or append with the destination present
\* and some source column absent from it.
C17_DecisionTable ==
    \A p \in Procs :
        LET pol == inv[p].if_exists
            e == inv[p].sql_item_exists
            extra == ExtraSourceCols(p)
        IN /\ CountOf(p, "_sql_item_exists") <= 1
           /\ (\E op \in AfterLookupOps : Called(p, op)) =>
                 /\ CountOf(p, "_sql_item_exists") = 1
                 /\ CalledOk(p, "_sql_item_exists")
           /\ Decided(p) =>
                 /\ Creates(p) <=> \/ pol = "replace"
                                   \/ (pol = "fail" /\ ~e)
                                   \/ (pol = "append" /\ ~e)
                 /\ Skipped(p) <=> (pol = "append" /\ e /\ extra = <<>>)
                 /\ Aborted(p) <=> \/ (pol = "fail" /\ e)
                                   \/ (pol = "append" /\ e /\ extra # <<>>)

\* reached: an append that found no destination, created it and loaded it
C17_Witness ==
    \E p \in Procs :
        /\ Done(p) /\ inv[p].if_exists = "append" /\ ~inv[p].sql_item_exists
        /\ CountOf(p, "_sql_item_exists") = 1
        /\ CalledOk(p, "_create_table") /\ CalledOk(p, "bcp")
        /\ inv[p].result = "returned"

\* reached: an append onto an existing destination that skipped the creation
C17_WitnessSkip ==
    \E p \in Procs :
        /\ Done(p) /\ inv[p].if_exists = "append" /\ inv[p].sql_item_exists
        /\ Skipped(p) /\ CalledOk(p, "bcp")

\* C18: whenever build_format_file is called with a name -> ordinal mapping
\* (db_cols_order is not None), every source column is a key of that mapping.
C18_BuilderPrecondition ==
    \A p \in Procs :
        (Called(p, "build_format_file") /\ ~DbColsOrderArg(inv[p]).none) =>
            Range(inv[p].df.columns) \subseteq DOMAIN DbColsOrderArg(inv[p]).map

\* C19: whenever bcp is invoked, the flat file was written, the existence
\* lookup ran, the format file was written and the create/skip decision was
\* applied, in this order and each successfully: a required creation
\* returned before bcp, a skipped one was never called.  An invocation whose
\* table creation raised never invokes bcp.
C19_BcpPreconditions ==
    \A p \in Procs :
        /\ Called(p, "bcp") =>
              LET dec == PolicyDecision(inv[p].if_exists, inv[p].sql_item_exists)
              IN /\ CalledOk(p, "to_csv")
                 /\ CalledOk(p, "_sql_item_exists")
                 /\ CalledOk(p, "write_fmt")
                 /\ IndexOf(p, "to_csv") < IndexOf(p, "_sql_item_exists")
                 /\ IndexOf(p, "_sql_item_exists") < IndexOf(p, "write_fmt")
                 /\ IndexOf(p, "write_fmt") < IndexOf(p, "bcp")
                 /\ dec # "abort"
                 /\ (dec = "create") =>
                       /\ CalledOk(p, "_create_table")
                       /\ IndexOf(p, "write_fmt") < IndexOf(p, "_create_table")
                       /\ IndexOf(p, "_create_table") < IndexOf(p, "bcp")
                 /\ (dec = "skip") => ~Called(p, "_create_table")
        /\ (Called(p, "_create_table") /\ ~CalledOk(p, "_create_table")) =>
              ~Called(p, "bcp")

\* reached: bcp invoked after a creation the policy required
C19_Witness ==
    \E p \in Procs :
        /\ Called(p, "bcp")
        /\ PolicyDecision(inv[p].if_exists, inv[p].sql_item_exists) = "create"
        /\ CalledOk(p, "_create_table")
        /\ IndexOf(p, "_create_table") + 1 = IndexOf(p, "bcp")

\* reached: a creation that raised, in an invocation that ended without bcp
C19_WitnessCreateRaised ==
    \E p \in Procs :
        /\ Done(p) /\ Called(p, "_create_table") /\ ~CalledOk(p, "_create_table")
        /\ ~Called(p, "bcp")

\* C20: whenever bcp is invoked with a batch size, that batch size lies in
\* 1..(number of rows of the source).
C20_BatchSizeRange ==
    \A p \in Procs :
        (inv[p].bcp_args # None /\ inv[p].bcp_args[1].batch_size # None) =>
            /\ 1 <= inv[p].bcp_args[1].batch_size[1]
            /\ inv[p].bcp_args[1].batch_size[1] <= inv[p].caller_df.nrows

====
